---------------------------- MODULE Spec2Model ----------------------------
(***************************************************************************)
(* Checkpointed, resumable bulk loader of scripts/load_pwc_data_to_postgres *)
(* (papers -> datasets -> code links -> evaluation records).               *)
(*                                                                         *)
(* One loader process at a time runs main(); it can be interrupted at any  *)
(* point (KeyboardInterrupt, exception, kill), after which a new process   *)
(* may be started.  The destination store is modelled by its committed     *)
(* tables (db) and the open transaction's view of them (conn).             *)
(***************************************************************************)
EXTENDS Integers, Sequences, FiniteSets, TLC

(***************************************************************************)
(* Bounds of the model.                                                    *)
(***************************************************************************)
\* batch_size=1000 in the source (the default of every loader; main never
\* passes another value); scaled down so that sources of 2..3 rows span
\* more than one batch.
batch_size == 2
\* number of loader processes started in one behaviour
MaxRuns == 3
\* stream_evaluation_tables commits every 100 rows; the model every
\* CommitEvery rows of a stream of StreamLen rows
CommitEvery == 2
StreamLen == 4
\* ArchiveScraper.run's limits (--max-tasks, --max-papers)
max_tasks == 2
max_papers == 2
\* papers in benchmark_metrics.yaml and in papers_index.json
MaxExisting == 2
MaxProcessed == 2

None == "None"

Streams == {"papers", "datasets", "links", "eval"}

Min(a, b) == IF a < b THEN a ELSE b

Range(s) == {s[n] : n \in 1..Len(s)}

(***************************************************************************)
(* Source rows (the parquet files).  Only the columns the loaders' control *)
(* flow reads are kept.  bad = TRUE marks a row whose INSERT raises a      *)
(* client-side exception (caught by the row's try/except).                 *)
(***************************************************************************)
PaperRow(a, t, b) == [arxiv_id |-> a, title |-> t, bad |-> b]
DatasetRow(n, b) == [name |-> n, bad |-> b]
LinkRow(a, u, b) == [paper_arxiv_id |-> a, repo_url |-> u, bad |-> b]
EvalRow(d, t, a, m, v, b) ==
    [dataset |-> d, task |-> t, paper_arxiv_id |-> a, metric |-> m,
     value |-> v, bad |-> b]

\* the three-row papers stream of the spec's scenario
ScenarioPapers ==
    << PaperRow("a1", "P1", FALSE),
       PaperRow(None, "P2", FALSE),
       PaperRow("a1", "P1-dup", FALSE) >>

ErrorPapers ==
    << PaperRow("a1", "P1", FALSE),
       PaperRow("a2", "P2", TRUE),
       PaperRow("a3", "P3", FALSE) >>

DatasetsSrc ==
    << DatasetRow("d1", FALSE),
       DatasetRow("d1", FALSE),
       DatasetRow("d2", TRUE) >>

LinksSrc ==
    << LinkRow("a1", "r1", FALSE),
       LinkRow("a9", "r2", FALSE),
       LinkRow(None, "r3", FALSE),
       LinkRow("a1", "r4", TRUE) >>

EvalSrc ==
    << EvalRow("d1", "t1", "a1", "m1", "1.5", FALSE),
       EvalRow("d9", "t1", "a1", "m1", "n/a", FALSE),
       EvalRow("d1", None, "a1", "m1", "2", FALSE),
       EvalRow("d1", "t1", "a9", "m1", "2", FALSE),
       EvalRow("d1", "t1", "a1", "m1", "2", FALSE),
       EvalRow("d1", "t2", "a1", "m1", "2", TRUE) >>

SourceChoices ==
    { [papers |-> p, datasets |-> DatasetsSrc, links |-> LinksSrc,
       eval |-> EvalSrc] : p \in {ScenarioPapers, ErrorPapers} }

\* which parquet files exist under DATA_DIR
FileChoices == { Streams, Streams \ {"papers"}, Streams \ {"datasets"} }

(***************************************************************************)
(* Checkpoint store.                                                       *)
(***************************************************************************)
OffsetKey(s) ==
    CASE s = "papers" -> "papers_offset"
      [] s = "datasets" -> "datasets_offset"
      [] s = "links" -> "links_offset"
      [] s = "eval" -> "eval_offset"

CompleteKey(s) ==
    CASE s = "papers" -> "papers_complete"
      [] s = "datasets" -> "datasets_complete"
      [] s = "links" -> "links_complete"
      [] s = "eval" -> "eval_complete"

FreshCheckpoint ==
    [papers_offset |-> 0, datasets_offset |-> 0, links_offset |-> 0,
     eval_offset |-> 0, papers_complete |-> FALSE,
     datasets_complete |-> FALSE, links_complete |-> FALSE,
     eval_complete |-> FALSE]

NoFile == [exists |-> FALSE, data |-> FreshCheckpoint, truncated |-> FALSE]

\* the file after open(CHECKPOINT_FILE, 'wb') and before the end of
\* pickle.dump: it exists and holds no complete pickle
TruncatedFile ==
    [exists |-> TRUE, data |-> FreshCheckpoint, truncated |-> TRUE]

\* a load_checkpoint() that never reads the file
load_checkpoint_fresh(f) == FreshCheckpoint

\* load_checkpoint(): the pickled dict, or the all-zero dict when no file
\* (pickle.load raises on a truncated file: see MainLoadFails)
load_checkpoint(f) == IF f.exists THEN f.data ELSE FreshCheckpoint

\* save_checkpoint(checkpoint): the file holds the whole dict
save_checkpoint(c) == [exists |-> TRUE, data |-> c, truncated |-> FALSE]

\* a clear_checkpoint() that leaves an empty checkpoint where none was
clear_checkpoint_create(f) ==
    IF f.exists THEN NoFile
    ELSE [exists |-> TRUE, data |-> FreshCheckpoint, truncated |-> FALSE]

\* a clear_checkpoint() that leaves the file in place
clear_checkpoint_keep(f) == f

\* clear_checkpoint(): unlink the file if it exists
clear_checkpoint(f) == IF f.exists THEN NoFile ELSE f

(***************************************************************************)
(* Destination store.  A table is the sequence of its rows, a row's id its *)
(* position (ids are never 0, so 0 stands for None / SQL NULL).            *)
(***************************************************************************)
EmptyTables ==
    [papers |-> << >>, datasets |-> << >>, implementations |-> << >>,
     benchmarks |-> << >>, benchmark_results |-> << >>]

\* SELECT id FROM papers WHERE arxiv_id = %s LIMIT 1  (0 when no row)
SelectPaper(t, arxiv_id) ==
    LET hit == {n \in 1..Len(t.papers) : t.papers[n].arxiv_id = arxiv_id}
    IN  IF hit = {} THEN 0 ELSE CHOOSE n \in hit : \A m \in hit : n <= m

\* SELECT id FROM datasets WHERE name = %s LIMIT 1  (0 when no row)
SelectDataset(t, name) ==
    LET hit == {n \in 1..Len(t.datasets) : t.datasets[n].name = name}
    IN  IF hit = {} THEN 0 ELSE CHOOSE n \in hit : \A m \in hit : n <= m


(***************************************************************************)
(* Uniqueness constraints behind the ON CONFLICT clauses.                  *)
(***************************************************************************)
\* ON CONFLICT (arxiv_id)
PapersConflict(t, arxiv_id) ==
    \E n \in 1..Len(t.papers) : t.papers[n].arxiv_id = arxiv_id

\* ON CONFLICT (name)
DatasetsConflict(t, name) ==
    \E n \in 1..Len(t.datasets) : t.datasets[n].name = name

\* ON CONFLICT DO NOTHING on implementations: the table has no uniqueness
\* constraint besides its generated id, so no insert ever conflicts.
ImplementationsConflict(t, paper_id, github_url) == FALSE

\* ON CONFLICT (name, dataset_id): the id of the conflicting row, 0 if none.
\* A NULL dataset_id (0) never equals another NULL in a unique index.
BenchmarksConflict(t, name, dataset_id) ==
    LET hit == {n \in 1..Len(t.benchmarks) :
                   /\ t.benchmarks[n].name = name
                   /\ dataset_id # 0
                   /\ t.benchmarks[n].dataset_id = dataset_id}
    IN  IF hit = {} THEN 0 ELSE CHOOSE n \in hit : TRUE

\* an INSERT INTO benchmark_results without its ON CONFLICT clause
ResultsConflictNever(t, paper_id, benchmark_id, metric_name) == FALSE

\* ON CONFLICT (paper_id, benchmark_id, metric_name)
ResultsConflict(t, paper_id, benchmark_id, metric_name) ==
    \E n \in 1..Len(t.benchmark_results) :
        /\ t.benchmark_results[n].paper_id = paper_id
        /\ t.benchmark_results[n].benchmark_id = benchmark_id
        /\ t.benchmark_results[n].metric_name = metric_name

(***************************************************************************)
(* The body of each loader's row loop: the tables of the open transaction  *)
(* after the row, and what the row adds to the loader's counters.          *)
(***************************************************************************)
Outcome(t, ins, skp, bm) ==
    [t |-> t, inserted |-> ins, skipped |-> skp, benchmarks |-> bm]

\* pd.isna(x)
isna(x) == x = None

\* a load_papers without the arxiv_id check
load_papers_nokey(t, row) ==
    IF row.bad THEN Outcome(t, 0, 0, 0)
    ELSE IF PapersConflict(t, row.arxiv_id) THEN Outcome(t, 0, 1, 0)
    ELSE Outcome([t EXCEPT !.papers = Append(@,
                      [arxiv_id |-> row.arxiv_id, title |-> row.title])],
                 1, 0, 0)

\* load_papers, one row (the authors and date conversions change no
\* control flow and are left out of the stored row)
load_papers(t, row) ==
    IF isna(row.arxiv_id) THEN Outcome(t, 0, 1, 0)
    ELSE IF row.bad THEN Outcome(t, 0, 0, 0)            \* except: continue
    ELSE IF PapersConflict(t, row.arxiv_id) THEN Outcome(t, 0, 1, 0)
    ELSE Outcome([t EXCEPT !.papers = Append(@,
                      [arxiv_id |-> row.arxiv_id, title |-> row.title])],
                 1, 0, 0)

\* load_datasets, one row
load_datasets(t, row) ==
    IF row.bad THEN Outcome(t, 0, 0, 0)                 \* except: continue
    ELSE IF DatasetsConflict(t, row.name) THEN Outcome(t, 0, 1, 0)
    ELSE Outcome([t EXCEPT !.datasets = Append(@, [name |-> row.name])],
                 1, 0, 0)

\* the mutant of load_code_links that inserts without a paper
load_code_links_nocheck(t, row) ==
    IF row.repo_url = "" \/ isna(row.repo_url) \/ isna(row.paper_arxiv_id)
    THEN Outcome(t, 0, 1, 0)
    ELSE Outcome([t EXCEPT !.implementations = Append(@,
                      [paper_id |-> SelectPaper(t, row.paper_arxiv_id),
                       github_url |-> row.repo_url])],
                 1, 0, 0)

\* load_code_links, one row
load_code_links(t, row) ==
    LET paper_id == SelectPaper(t, row.paper_arxiv_id) IN
    IF row.repo_url = "" \/ isna(row.repo_url) \/ isna(row.paper_arxiv_id)
    THEN Outcome(t, 0, 1, 0)
    ELSE IF paper_id = 0 THEN Outcome(t, 0, 1, 0)
    ELSE IF row.bad THEN Outcome(t, 0, 0, 0)            \* except: continue
    ELSE IF ImplementationsConflict(t, paper_id, row.repo_url)
         THEN Outcome(t, 0, 1, 0)
    ELSE Outcome([t EXCEPT !.implementations = Append(@,
                      [paper_id |-> paper_id, github_url |-> row.repo_url])],
                 1, 0, 0)

\* float(metric_value): tenths of the number, -1 for ValueError
float(v) ==
    CASE v = "1.5" -> 15
      [] v = "2" -> 20
      [] OTHER -> -1

\* load_evaluation_tables, one row
load_evaluation_tables(t, row) ==
    LET benchmark_name == <<row.dataset, row.task>>
        dataset_id == SelectDataset(t, row.dataset)
        hit == BenchmarksConflict(t, benchmark_name, dataset_id)
        t1 == IF hit # 0
              THEN [t EXCEPT !.benchmarks[hit].task = row.task]
              ELSE [t EXCEPT !.benchmarks = Append(@,
                       [name |-> benchmark_name, dataset_id |-> dataset_id,
                        task |-> row.task])]
        benchmark_id == IF hit # 0 THEN hit ELSE Len(t1.benchmarks)
        paper_id == IF isna(row.paper_arxiv_id) THEN 0
                    ELSE SelectPaper(t1, row.paper_arxiv_id)
        metric_value == float(row.value)
    IN
    IF isna(row.dataset) \/ isna(row.task) THEN Outcome(t, 0, 1, 0)
    ELSE IF row.bad THEN Outcome(t, 0, 0, 0)            \* except: continue
    ELSE IF paper_id # 0 /\ row.metric # "" /\ ~isna(row.metric)
            /\ ~isna(row.value)
         THEN IF metric_value = -1 THEN Outcome(t1, 0, 0, 1)   \* ValueError: pass
              ELSE IF ResultsConflict(t1, paper_id, benchmark_id, row.metric)
                   THEN Outcome(t1, 0, 0, 1)
              ELSE Outcome([t1 EXCEPT !.benchmark_results = Append(@,
                               [paper_id |-> paper_id,
                                benchmark_id |-> benchmark_id,
                                metric_name |-> row.metric,
                                metric_value |-> metric_value])],
                           1, 0, 1)
    ELSE Outcome(t1, 0, 0, 1)

\* the row loop body of the loader of stream s
LoadRow(s, t, row) ==
    CASE s = "papers" -> load_papers(t, row)
      [] s = "datasets" -> load_datasets(t, row)
      [] s = "links" -> load_code_links(t, row)
      [] s = "eval" -> load_evaluation_tables(t, row)

(***************************************************************************)
(* State.                                                                  *)
(***************************************************************************)
VARIABLES
    df,                  \* the four source frames (pd.read_parquet)
    present,             \* streams whose parquet file exists
    raises,              \* where a row marked bad raises: "transform" (in
                         \*   the client, before any statement is sent) or
                         \*   "insert" (in the store, at the INSERT)
    CHECKPOINT_FILE,     \* the checkpoint file: [exists, data]
    db,                  \* committed tables of the destination store
    conn,                \* tables as the open connection sees them
    inerror,             \* the open transaction is in the failed state
    pc,                  \* position of the loader process, "idle" if none
    mode,                \* args: "continue", "fresh" or "clear_checkpoint"
    stage,               \* the loader main is in
    checkpoint,          \* main's checkpoint dict
    start_offset,        \* the running loader's locals
    i,                   \*   batch start (0-based)
    j,                   \*   next row of the batch (0-based)
    inserted,
    skipped,
    inserted_benchmarks,
    counts,              \* main's papers_count .. eval_count
    runs,                \* processes started so far
    \* history variables
    attempted,           \* per stream, the row indices this run attempted
    committed,           \* per stream, rows of the batches whose
                         \*   conn.commit() was executed since the last
                         \*   clear_checkpoint() call
    durable,             \* of those, the batches the store did commit
    loaded,              \* the checkpoint as main loaded it
    prior,               \* committed, as it was when this run started
    dbAtStart,           \* db, as it was when this run started
    resets,              \* clear_checkpoint() calls so far
    lastExit,            \* how the last process ended
    prevExit,            \* lastExit, as it was when this run started
    \* the other scripts, each a record of its state
    stream,              \* stream_remaining_data.py
    scraper,             \* maintenance_scripts/archive_scraper.py
    merger               \* maintenance_scripts/merge_data.py

loader ==
    << df, present, raises, CHECKPOINT_FILE, db, conn, inerror, pc, mode,
       stage, checkpoint, start_offset, i, j, inserted, skipped,
       inserted_benchmarks, counts, runs, attempted, committed, durable,
       loaded, prior, dbAtStart, resets, lastExit, prevExit >>

\* the scripts other than the loader
scripts == << stream, scraper, merger >>

vars == << loader, scripts >>

source == << df, present, raises >>
locals == << start_offset, i, j, inserted, skipped, inserted_benchmarks >>

NoCounts == [s \in Streams |-> 0]
NoRows == [s \in Streams |-> << >>]
NoneCommitted == [s \in Streams |-> {}]

\* rows of the batch that starts at row b of a frame of n rows
BatchEnd(b, n) == Min(b + batch_size, n)

\* no loader process, an empty store, no checkpoint file
Idle ==
    /\ CHECKPOINT_FILE = NoFile
    /\ db = EmptyTables
    /\ conn = EmptyTables
    /\ inerror = FALSE
    /\ pc = "idle"
    /\ mode = "continue"
    /\ stage = "papers"
    /\ checkpoint = FreshCheckpoint
    /\ start_offset = 0 /\ i = 0 /\ j = 0
    /\ inserted = 0 /\ skipped = 0 /\ inserted_benchmarks = 0
    /\ counts = NoCounts
    /\ runs = 0
    /\ attempted = NoRows
    /\ committed = NoneCommitted
    /\ durable = NoneCommitted
    /\ loaded = FreshCheckpoint
    /\ prior = NoneCommitted
    /\ dbAtStart = EmptyTables
    /\ resets = 0
    /\ lastExit = "none"
    /\ prevExit = "none"

\* the loader with nothing to load, for the runs of the other scripts
NoLoader ==
    /\ df = [s \in Streams |-> << >>]
    /\ present = {}
    /\ raises = "transform"
    /\ Idle

\* a script that is not run
NotRun == [pc |-> "off"]

Init ==
    /\ df \in SourceChoices
    /\ present \in FileChoices
    /\ raises \in {"transform", "insert"}
    /\ Idle
    /\ stream = NotRun
    /\ scraper = NotRun
    /\ merger = NotRun

(***************************************************************************)
(* main().  DATA_DIR, which holds the checkpoint file, exists.             *)
(***************************************************************************)
\* a main that calls load_evaluation_tables right after load_papers
StageOrderEvalEarly == << "papers", "eval", "datasets", "links" >>

\* a main that calls load_code_links before load_papers
StageOrderLinksFirst == << "links", "papers", "datasets", "eval" >>

\* lines 526-529: the loaders in main's order
StageOrder == << "papers", "datasets", "links", "eval" >>

StageIndex(s) == CHOOSE n \in 1..Len(StageOrder) : StageOrder[n] = s

\* the process is gone: its locals and its connection with it
Exit(how) ==
    /\ pc' = "idle"
    /\ conn' = db'
    /\ inerror' = FALSE
    /\ stage' = "papers"
    /\ checkpoint' = FreshCheckpoint
    /\ start_offset' = 0 /\ i' = 0 /\ j' = 0
    /\ inserted' = 0 /\ skipped' = 0 /\ inserted_benchmarks' = 0
    /\ counts' = NoCounts
    /\ lastExit' = how

\* lines 521-522: connect_db(), then the first loader
Start(f, c) ==
    /\ CHECKPOINT_FILE' = f
    /\ checkpoint' = c
    /\ loaded' = c
    /\ conn' = db
    /\ inerror' = FALSE
    /\ pc' = "enter"
    /\ stage' = StageOrder[1]
    /\ counts' = NoCounts
    /\ attempted' = NoRows
    /\ dbAtStart' = db
    /\ prevExit' = lastExit
    /\ runs' = runs + 1
    /\ UNCHANGED << scripts, source, db, locals, lastExit >>

\* a --clear-checkpoint without the return of line 490
MainClearCheckpointThenLoad ==
    /\ pc = "idle" /\ runs < MaxRuns
    /\ mode' = "clear_checkpoint"
    /\ resets' = resets + 1
    /\ committed' = NoneCommitted /\ durable' = NoneCommitted
    /\ prior' = NoneCommitted
    /\ Start(clear_checkpoint(CHECKPOINT_FILE),
             load_checkpoint(clear_checkpoint(CHECKPOINT_FILE)))

\* --clear-checkpoint: lines 484-490
MainClearCheckpoint ==
    /\ pc = "idle" /\ runs < MaxRuns
    /\ mode' = "clear_checkpoint"
    /\ runs' = runs + 1
    /\ IF CHECKPOINT_FILE.exists
       THEN /\ CHECKPOINT_FILE' = clear_checkpoint(CHECKPOINT_FILE)
            /\ resets' = resets + 1
            /\ committed' = NoneCommitted /\ durable' = NoneCommitted
       ELSE UNCHANGED << CHECKPOINT_FILE, resets, committed, durable >>
    /\ db' = db
    /\ Exit("cleared")
    /\ prevExit' = lastExit
    /\ UNCHANGED << scripts, source, attempted, loaded, prior, dbAtStart >>

\* a --fresh that forgets clear_checkpoint()
MainFreshNoClear ==
    /\ pc = "idle" /\ runs < MaxRuns
    /\ mode' = "fresh"
    /\ prior' = committed
    /\ Start(CHECKPOINT_FILE, load_checkpoint(CHECKPOINT_FILE))
    /\ UNCHANGED << resets, committed, durable >>

\* --fresh: lines 498-501
MainFresh ==
    /\ pc = "idle" /\ runs < MaxRuns
    /\ mode' = "fresh"
    /\ resets' = resets + 1
    /\ committed' = NoneCommitted /\ durable' = NoneCommitted
    /\ prior' = NoneCommitted
    /\ Start(clear_checkpoint(CHECKPOINT_FILE),
             load_checkpoint(clear_checkpoint(CHECKPOINT_FILE)))

\* default / --continue: lines 502-519
MainContinue ==
    /\ pc = "idle" /\ runs < MaxRuns
    /\ ~CHECKPOINT_FILE.truncated
    /\ mode' = "continue"
    /\ prior' = committed
    /\ Start(CHECKPOINT_FILE, load_checkpoint(CHECKPOINT_FILE))
    /\ UNCHANGED << resets, committed, durable >>

\* a loader returns n to main, which calls the next one
Return(n) ==
    /\ counts' = [counts EXCEPT ![stage] = n]
    /\ IF StageIndex(stage) = Len(StageOrder)
       THEN pc' = "done" /\ stage' = stage
       ELSE pc' = "enter" /\ stage' = StageOrder[StageIndex(stage) + 1]

\* a loader that ignores the checkpoint's offset
StartOffsetZero(c, s) == 0

\* start_offset = checkpoint.get('<stream>_offset', 0)
StartOffset(c, s) == c[OffsetKey(s)]

\* a loader without the '<stream>_complete' check of lines 68-70
EnterIgnoringComplete ==
    /\ pc = "enter"
    /\ IF stage \notin present
       THEN /\ Return(0)
            /\ UNCHANGED locals
       ELSE /\ start_offset' = StartOffset(checkpoint, stage)
            /\ i' = StartOffset(checkpoint, stage)
            /\ j' = StartOffset(checkpoint, stage)
            /\ inserted' = 0 /\ skipped' = 0 /\ inserted_benchmarks' = 0
            /\ pc' = IF StartOffset(checkpoint, stage) < Len(df[stage])
                     THEN "row" ELSE "complete"
            /\ UNCHANGED << stage, counts >>
    /\ UNCHANGED << scripts, source, CHECKPOINT_FILE, db, conn, inerror, mode,
                    checkpoint, runs, attempted, committed, durable, loaded,
                    prior, dbAtStart, resets, lastExit, prevExit >>

\* a loader up to its first batch: lines 61-83 (and the like)
Enter ==
    /\ pc = "enter"
    /\ IF stage \notin present \/ checkpoint[CompleteKey(stage)]
       THEN /\ Return(0)
            /\ UNCHANGED locals
       ELSE /\ start_offset' = StartOffset(checkpoint, stage)
            /\ i' = StartOffset(checkpoint, stage)
            /\ j' = StartOffset(checkpoint, stage)
            /\ inserted' = 0 /\ skipped' = 0 /\ inserted_benchmarks' = 0
            /\ pc' = IF StartOffset(checkpoint, stage) < Len(df[stage])
                     THEN "row" ELSE "complete"
            /\ UNCHANGED << stage, counts >>
    /\ UNCHANGED << scripts, source, CHECKPOINT_FILE, db, conn, inerror, mode,
                    checkpoint, runs, attempted, committed, durable, loaded,
                    prior, dbAtStart, resets, lastExit, prevExit >>

\* the row gets as far as a cur.execute: it is not skipped before
Executes(s, row) ==
    CASE s = "papers" -> ~isna(row.arxiv_id)
      [] s = "datasets" -> TRUE
      [] s = "links" -> ~(row.repo_url = "" \/ isna(row.repo_url)
                            \/ isna(row.paper_arxiv_id))
      [] s = "eval" -> ~(isna(row.dataset) \/ isna(row.task))

\* the row's INSERT is sent and raises in the store
InsertRaises(s, t, row) ==
    /\ raises = "insert"
    /\ row.bad
    /\ Executes(s, row)
    /\ s = "links" => SelectPaper(t, row.paper_arxiv_id) # 0

\* one row of the batch: the try block of the row loop.  The connection is
\* not in autocommit mode (connect_db, line 56): a statement that raises in
\* the store leaves the transaction failed, and every later statement of
\* the batch raises too and is caught by the same except.
Row ==
    /\ pc = "row"
    /\ LET row == df[stage][j + 1]
           out == IF inerror /\ Executes(stage, row)
                  THEN Outcome(conn, 0, 0, 0)
                  ELSE LoadRow(stage, conn, row)
       IN
       /\ conn' = out.t
       /\ inserted' = inserted + out.inserted
       /\ skipped' = skipped + out.skipped
       /\ inserted_benchmarks' = inserted_benchmarks + out.benchmarks
       /\ inerror' = (inerror \/ InsertRaises(stage, conn, row))
    /\ attempted' = [attempted EXCEPT ![stage] = Append(@, j)]
    /\ j' = j + 1
    /\ pc' = IF j + 1 < BatchEnd(i, Len(df[stage])) THEN "row" ELSE "commit"
    /\ UNCHANGED << scripts, source, CHECKPOINT_FILE, db, mode, stage, checkpoint,
                    start_offset, i, counts, runs, committed, durable, loaded,
                    prior, dbAtStart, resets, lastExit, prevExit >>

\* conn.commit() after the batch.  On a failed transaction the store rolls
\* back and commit() returns without raising.
Commit ==
    /\ pc = "commit"
    /\ db' = IF inerror THEN db ELSE conn
    /\ conn' = db'
    /\ inerror' = FALSE
    /\ committed' = [committed EXCEPT ![stage] =
                        @ \cup (i .. BatchEnd(i, Len(df[stage])) - 1)]
    /\ durable' = IF inerror THEN durable
                  ELSE [durable EXCEPT ![stage] =
                           @ \cup (i .. BatchEnd(i, Len(df[stage])) - 1)]
    /\ pc' = "save"
    /\ UNCHANGED << scripts, source, CHECKPOINT_FILE, mode, stage, checkpoint, locals,
                    counts, runs, attempted, loaded, prior, dbAtStart, resets,
                    lastExit, prevExit >>

\* an offset that runs one batch ahead of the commit
NextOffsetAhead(b) == b + batch_size + batch_size

\* checkpoint['<stream>_offset'] = i + batch_size
NextOffset(b) == b + batch_size

\* the checkpoint update after the batch, and the loop's next i
Save ==
    /\ pc = "save"
    /\ checkpoint' = [checkpoint EXCEPT ![OffsetKey(stage)] = NextOffset(i)]
    /\ CHECKPOINT_FILE' = save_checkpoint(checkpoint')
    /\ i' = i + batch_size
    /\ j' = i + batch_size
    /\ pc' = IF i + batch_size < Len(df[stage]) THEN "row" ELSE "complete"
    /\ UNCHANGED << scripts, source, db, conn, inerror, mode, stage, start_offset,
                    inserted, skipped, inserted_benchmarks, counts, runs,
                    attempted, committed, durable, loaded, prior, dbAtStart,
                    resets, lastExit, prevExit >>

\* after the loop: mark the stream complete, save, return inserted
Complete ==
    /\ pc = "complete"
    /\ checkpoint' = [checkpoint EXCEPT ![CompleteKey(stage)] = TRUE]
    /\ CHECKPOINT_FILE' = save_checkpoint(checkpoint')
    /\ Return(inserted)
    /\ UNCHANGED << scripts, source, db, conn, inerror, mode, locals, runs,
                    attempted, committed, durable, loaded, prior, dbAtStart,
                    resets, lastExit, prevExit >>

\* lines 531-544: close, summary, clear_checkpoint()
Done ==
    /\ pc = "done"
    /\ CHECKPOINT_FILE' = clear_checkpoint(CHECKPOINT_FILE)
    /\ resets' = resets + 1
    /\ committed' = NoneCommitted /\ durable' = NoneCommitted
    /\ db' = db
    /\ Exit(IF \A s \in Streams : checkpoint[CompleteKey(s)]
            THEN "completed" ELSE "finished")
    /\ UNCHANGED << scripts, source, mode, runs, attempted, loaded, prior, dbAtStart,
                    prevExit >>

\* KeyboardInterrupt or an escaping exception, caught at lines 546-553 (a
\* kill leaves the same tables and file).  The open transaction is lost,
\* the checkpoint file stays as last saved.
Interrupt ==
    /\ pc # "idle"
    /\ db' = db
    /\ Exit("interrupted")
    /\ UNCHANGED << scripts, source, CHECKPOINT_FILE, mode, runs, attempted,
                    committed, durable,
                    loaded, prior, dbAtStart, resets, prevExit >>

\* the same, inside save_checkpoint: between open(CHECKPOINT_FILE, 'wb'),
\* which empties the file, and the end of pickle.dump
SaveInterrupted ==
    /\ pc \in {"save", "complete"}
    /\ db' = db
    /\ CHECKPOINT_FILE' = TruncatedFile
    /\ Exit("interrupted")
    /\ UNCHANGED << scripts, source, mode, runs, attempted, committed, durable,
                    loaded, prior, dbAtStart, resets, prevExit >>

\* default / --continue over a truncated file: pickle.load raises in
\* load_checkpoint, line 503, outside main's try
MainLoadFails ==
    /\ pc = "idle" /\ runs < MaxRuns
    /\ CHECKPOINT_FILE.truncated
    /\ mode' = "continue"
    /\ runs' = runs + 1
    /\ db' = db
    /\ Exit("failed")
    /\ prevExit' = lastExit
    /\ UNCHANGED << scripts, source, CHECKPOINT_FILE, attempted, committed, durable,
                    loaded, prior, dbAtStart, resets >>

\* the exit status of a process, by the way it ended: the handlers of
\* lines 546-553 print and fall off the end of main, like the success
\* path and the return of line 490; an uncaught exception gives 1
Status(how) == IF how = "failed" THEN 1 ELSE 0

Next ==
    \/ MainClearCheckpoint
    \/ MainFresh
    \/ MainContinue
    \/ MainLoadFails
    \/ SaveInterrupted
    \/ Enter
    \/ Row
    \/ Commit
    \/ Save
    \/ Complete
    \/ Done
    \/ Interrupt

Spec == Init /\ [][Next]_vars

(***************************************************************************)
(* stream_remaining_data.py: stream_evaluation_tables().  A row of the     *)
(* remote iterator has a task, a list of dataset names (its 'datasets'     *)
(* dicts) and, like the loader's rows, a mark for the row that raises: in  *)
(* the client before any statement ("transform") or in the store at its    *)
(* first INSERT ("insert").                                                *)
(***************************************************************************)
StreamRowOf(task, datasets, bad) ==
    [task |-> task, datasets |-> datasets, bad |-> bad]

StreamRows ==
    { StreamRowOf("t1", << "d1" >>, "no"),
      StreamRowOf("t1", << "d2", "d1" >>, "no"),
      StreamRowOf("", << "d1" >>, "no"),
      StreamRowOf("t1", << "d1" >>, "transform"),
      StreamRowOf("t1", << "d2" >>, "insert") }

\* ds['train']
StreamChoices == [1..StreamLen -> StreamRows]

\* the datasets and benchmarks tables before the stream: empty, or holding
\* dataset d1 and the benchmark of t1 on it
StreamTables ==
    { [datasets |-> << >>, benchmarks |-> << >>],
      [datasets |-> << [name |-> "d1", updated |-> FALSE] >>,
       benchmarks |-> << [name |-> << "t1", "d1" >>, dataset_id |-> 1] >>] }

\* INSERT INTO datasets ... ON CONFLICT (name) DO UPDATE SET updated_at = NOW()
UpsertDataset(t, name) ==
    IF \E n \in 1..Len(t.datasets) : t.datasets[n].name = name
    THEN [t EXCEPT !.datasets =
             [n \in 1..Len(t.datasets) |->
                 IF t.datasets[n].name = name
                 THEN [t.datasets[n] EXCEPT !.updated = TRUE]
                 ELSE t.datasets[n]]]
    ELSE [t EXCEPT !.datasets = Append(@, [name |-> name, updated |-> FALSE])]

\* RETURNING id
ReturnedId(t, name) ==
    CHOOSE n \in 1..Len(t.datasets) : t.datasets[n].name = name

\* INSERT INTO benchmarks ... ON CONFLICT (name, dataset_id) DO NOTHING
InsertBenchmark(t, name, dataset_id) ==
    IF \E n \in 1..Len(t.benchmarks) :
           /\ t.benchmarks[n].name = name
           /\ t.benchmarks[n].dataset_id = dataset_id
    THEN t
    ELSE [t EXCEPT !.benchmarks =
             Append(@, [name |-> name, dataset_id |-> dataset_id])]

\* the inner loop over datasets_info from its k-th entry on; st holds the
\* connection's tables, inserted, the transaction's state and whether an
\* exception left the loop
RECURSIVE stream_datasets(_, _, _)
stream_datasets(st, row, k) ==
    IF k > Len(row.datasets) THEN st
    ELSE IF row.datasets[k] = "" \/ row.task = ""
         THEN stream_datasets(st, row, k + 1)
    ELSE IF st.inerror THEN [st EXCEPT !.raised = TRUE]
    ELSE IF row.bad = "insert"
         THEN [st EXCEPT !.raised = TRUE, !.inerror = TRUE]
    ELSE LET t1 == UpsertDataset(st.conn, row.datasets[k])
             t2 == InsertBenchmark(t1, << row.task, row.datasets[k] >>,
                                   ReturnedId(t1, row.datasets[k]))
         IN  stream_datasets([st EXCEPT !.conn = t2, !.inserted = @ + 1],
                             row, k + 1)

\* the try block of one row, up to the commit test
stream_row(st, row) ==
    IF row.bad = "transform" THEN [st EXCEPT !.raised = TRUE]
    ELSE stream_datasets(st, row, 1)

\* psycopg2.connect, load_dataset: lines 18-24
StreamInit ==
    /\ NoLoader
    /\ scraper = NotRun
    /\ merger = NotRun
    /\ \E rows \in StreamChoices, t \in StreamTables :
           stream = [pc |-> "loop", ds |-> rows, i |-> 0, inserted |-> 0,
                     errors |-> 0, db |-> t, conn |-> t, inerror |-> FALSE,
                     before |-> t, commits |-> 0]

\* one pass of the for loop: lines 26-68
StreamRow ==
    /\ stream.pc = "loop"
    /\ stream.i < Len(stream.ds)
    /\ LET st == stream_row([conn |-> stream.conn,
                             inserted |-> stream.inserted,
                             inerror |-> stream.inerror,
                             raised |-> FALSE],
                            stream.ds[stream.i + 1])
           commit == ~st.raised /\ (stream.i + 1) % CommitEvery = 0
           committed_db == IF st.inerror THEN stream.db ELSE st.conn
       IN  stream' = [stream EXCEPT
                         !.i = @ + 1,
                         !.inserted = st.inserted,
                         !.errors = IF st.raised THEN @ + 1 ELSE @,
                         !.db = IF commit THEN committed_db ELSE @,
                         !.conn = IF commit THEN committed_db ELSE st.conn,
                         !.inerror = IF commit THEN FALSE ELSE st.inerror,
                         !.commits = IF commit THEN @ + 1 ELSE @]
    /\ UNCHANGED << loader, scraper, merger >>

\* after the loop: conn.commit(), close, return inserted (lines 70-75)
StreamEnd ==
    /\ stream.pc = "loop"
    /\ stream.i = Len(stream.ds)
    /\ stream' = [stream EXCEPT
                      !.pc = "done",
                      !.db = IF stream.inerror THEN @ ELSE stream.conn,
                      !.conn = IF stream.inerror THEN stream.db ELSE @,
                      !.inerror = FALSE,
                      !.commits = @ + 1]
    /\ UNCHANGED << loader, scraper, merger >>

StreamNext ==
    \/ StreamRow
    \/ StreamEnd

StreamSpec == StreamInit /\ [][StreamNext]_vars

(***************************************************************************)
(* maintenance_scripts/archive_scraper.py: ArchiveScraper.  The archived   *)
(* site is a main page that lists the task pages, each of which lists its  *)
(* paper pages.                                                            *)
(***************************************************************************)
base_url == "main"

\* main_data['tasks']
TaskUrls == << "T1", "T2", "T3" >>

\* task_data['papers'] of a scraped task page
PapersOf(task_url) ==
    CASE task_url = "T1" -> << "P1", "P2", "P3" >>
      [] task_url = "T2" -> << "P2", "P4" >>
      [] OTHER -> << >>

PageUrls == {base_url, "T1", "T2", "T3", "P1", "P2", "P3", "P4"}

\* tasks_to_scrape = main_data.get('tasks', [])[:max_tasks]
tasks_to_scrape == SubSeq(TaskUrls, 1, Min(max_tasks, Len(TaskUrls)))

\* _get_page(url) with the answer of the archive: "skip" for a URL in
\* scraped_urls, "none" for an error answer, "soup" for a parsed page
get_page(scraped_urls, url, ok) ==
    IF url \in scraped_urls THEN "skip"
    ELSE IF ok THEN "soup" ELSE "none"

\* the scraper after `got` for url: a soup marks the URL scraped and
\* counts as a fetch, an error answer only counts as a fetch
Fetched(sc, url, got) ==
    [sc EXCEPT
        !.scraped_urls = IF got = "soup" THEN @ \cup {url} ELSE @,
        !.fetches = IF got = "skip" THEN @
                    ELSE [@ EXCEPT ![url] = @ + 1],
        !.failed = @ \/ got = "none"]

\* _save_json(...) of a page, then _save_scraped_urls()
Saved(sc, url) ==
    [sc EXCEPT !.files = @ \cup {url}, !.urls_file = sc.scraped_urls]

ScraperInit ==
    /\ NoLoader
    /\ stream = NotRun
    /\ merger = NotRun
    /\ scraper = [pc |-> "idle", continue_from_last |-> TRUE,
                  scraped_urls |-> {}, urls_file |-> {}, files |-> {},
                  task |-> 0, papers_in_task |-> << >>, paper |-> 0,
                  papers_scraped |-> 0,
                  fetches |-> [u \in PageUrls |-> 0], failed |-> FALSE,
                  runs |-> 0, last |-> "none", interrupted |-> FALSE]

\* __main__, __init__ and run() up to the task loop: lines 38-52,
\* 454-476 and scrape_main_page
ScraperRun ==
    /\ scraper.pc = "idle"
    /\ scraper.runs < MaxRuns
    /\ \E c \in BOOLEAN, ok \in BOOLEAN :
          LET sc0 == [scraper EXCEPT !.continue_from_last = c,
                                     !.scraped_urls = scraper.urls_file,
                                     !.runs = @ + 1,
                                     !.task = 0, !.paper = 0,
                                     !.papers_in_task = << >>,
                                     !.papers_scraped = 0]
              got == get_page(sc0.scraped_urls, base_url, ok)
          IN  scraper' =
                IF base_url \in scraper.files
                THEN [sc0 EXCEPT !.pc = "task"]
                ELSE IF got = "soup"
                     THEN [Saved(Fetched(sc0, base_url, got), base_url)
                              EXCEPT !.pc = "task"]
                     ELSE [Fetched(sc0, base_url, got)
                              EXCEPT !.pc = "idle", !.last = "no main page"]
    /\ UNCHANGED << loader, stream, merger >>

\* one pass of the task loop up to the paper loop: lines 477-491 and
\* scrape_task_page
ScraperTask ==
    /\ scraper.pc = "task"
    /\ scraper.task < Len(tasks_to_scrape)
    /\ \E ok \in BOOLEAN :
          LET url == tasks_to_scrape[scraper.task + 1]
              got == get_page(scraper.scraped_urls, url, ok)
              sc1 == Fetched(scraper, url, got)
          IN  scraper' =
                IF scraper.continue_from_last /\ url \in scraper.scraped_urls
                THEN [scraper EXCEPT !.task = @ + 1]
                ELSE IF got = "soup"
                     THEN [Saved(sc1, url) EXCEPT
                              !.pc = "paper", !.paper = 0,
                              !.papers_scraped = 0,
                              !.papers_in_task = PapersOf(url)]
                     ELSE [sc1 EXCEPT
                              !.pc = "paper", !.paper = 0,
                              !.papers_scraped = 0,
                              !.papers_in_task = << >>]
    /\ UNCHANGED << loader, stream, merger >>

\* one pass of the paper loop: lines 493-505 and scrape_paper_page
ScraperPaper ==
    /\ scraper.pc = "paper"
    /\ \E ok \in BOOLEAN :
          LET url == scraper.papers_in_task[scraper.paper + 1]
              got == get_page(scraper.scraped_urls, url, ok)
              sc1 == Fetched(scraper, url, got)
          IN  scraper' =
                IF \/ scraper.paper = Len(scraper.papers_in_task)
                   \/ scraper.papers_scraped >= max_papers
                THEN [scraper EXCEPT !.pc = "task", !.task = @ + 1]
                ELSE IF url \in scraper.scraped_urls
                     THEN [scraper EXCEPT !.paper = @ + 1]
                ELSE IF got = "soup"
                     THEN [Saved(sc1, url) EXCEPT
                              !.paper = @ + 1, !.papers_scraped = @ + 1]
                     ELSE [sc1 EXCEPT
                              !.paper = @ + 1, !.papers_scraped = @ + 1]
    /\ UNCHANGED << loader, stream, merger >>

\* "Scraping completed!": lines 507-508
ScraperDone ==
    /\ scraper.pc = "task"
    /\ scraper.task = Len(tasks_to_scrape)
    /\ scraper' = [scraper EXCEPT !.pc = "idle", !.last = "completed"]
    /\ UNCHANGED << loader, stream, merger >>

\* the process is interrupted: what is in memory is gone, the files stay
ScraperInterrupt ==
    /\ scraper.pc # "idle"
    /\ scraper' = [scraper EXCEPT !.pc = "idle", !.last = "interrupted",
                                  !.interrupted = TRUE]
    /\ UNCHANGED << loader, stream, merger >>

ScraperNext ==
    \/ ScraperRun
    \/ ScraperTask
    \/ ScraperPaper
    \/ ScraperDone
    \/ ScraperInterrupt

ScraperSpec == ScraperInit /\ [][ScraperNext]_vars

(***************************************************************************)
(* maintenance_scripts/merge_data.py: DataMerger.  A title is a sequence   *)
(* of characters, a paper a title and an abstract.                         *)
(***************************************************************************)
\* c.lower()
lower(c) == IF c = "A" THEN "a" ELSE IF c = "B" THEN "b" ELSE c

\* c.isalnum() or c.isspace()
isalnum_or_isspace(c) == c \in {"a", "b", "A", "B", " "}

\* ' '.join(title.split()): no leading, trailing or repeated space
RECURSIVE join_split(_)
join_split(t) ==
    IF t = << >> THEN << >>
    ELSE IF Head(t) = " " THEN join_split(Tail(t))
    ELSE IF Len(t) >= 2 /\ t[2] = " " /\ join_split(Tail(Tail(t))) # << >>
         THEN << Head(t), " " >> \o join_split(Tail(Tail(t)))
    ELSE << Head(t) >> \o join_split(Tail(t))

\* normalize_title: lines 54-64
normalize_title(title) ==
    join_split(SelectSeq([n \in 1..Len(title) |-> lower(title[n])],
                         isalnum_or_isspace))

\* a in b, for strings
in(a, b) ==
    \E k \in 0..(Len(b) - Len(a)) : SubSeq(b, k + 1, k + Len(a)) = a

Paper(title, abstract) == [title |-> title, abstract |-> abstract]

Titles ==
    { << "A", "b" >>, << "a", "!", "b" >>, << "a", " ", "b" >>,
      << "a" >>, << " ", "B" >>, << >> }

\* existing_data['papers']
ExistingChoices ==
    UNION { [1..n -> {Paper(t, "") : t \in Titles}] : n \in 0..MaxExisting }

\* processed_papers.values(), in the order of the index file
ProcessedChoices ==
    UNION { [1..n -> {Paper(t, "x") : t \in Titles}] : n \in 1..MaxProcessed }

\* find_existing_paper: the index in existing of the paper found, 0 for None
find_existing_paper(existing, paper) ==
    LET new_title == normalize_title(paper.title)
        match(n) ==
            LET existing_title == normalize_title(existing[n].title) IN
            /\ new_title # << >> /\ existing_title # << >>
            /\ \/ new_title = existing_title
               \/ in(new_title, existing_title)
               \/ in(existing_title, new_title)
        hits == {n \in 1..Len(existing) : match(n)}
    IN  IF hits = {} THEN 0 ELSE CHOOSE n \in hits : \A m \in hits : n <= m

\* papers_index.get(title): the last index with that normalized title, 0
\* for None
papers_index(existing, title) ==
    LET hits == {n \in 1..Len(existing) :
                    normalize_title(existing[n].title) = title}
    IN  IF hits = {} THEN 0 ELSE CHOOSE n \in hits : \A m \in hits : n >= m

\* merge_paper_data, for the fields of the model
merge_paper_data(existing_paper, new) ==
    [existing_paper EXCEPT
        !.abstract = IF @ = "" /\ new.abstract # "" THEN new.abstract ELSE @]

\* convert_to_yaml_format
convert_to_yaml_format(paper) == Paper(paper.title, paper.abstract)

\* DataMerger(): lines 21-37, and run() up to its loop, lines 225-234
MergeInit ==
    /\ NoLoader
    /\ stream = NotRun
    /\ scraper = NotRun
    /\ \E e \in ExistingChoices, p \in ProcessedChoices :
           merger = [pc |-> "loop", existing |-> e, processed |-> p,
                     merged_papers |-> e, k |-> 0, new_count |-> 0,
                     updated_count |-> 0, output |-> << >>]

\* one pass of the loop over processed_papers: lines 236-264
MergePaper ==
    /\ merger.pc = "loop"
    /\ merger.k < Len(merger.processed)
    /\ LET paper_data == merger.processed[merger.k + 1]
           found == find_existing_paper(merger.existing, paper_data)
           existing_index ==
               IF found = 0 THEN 0
               ELSE papers_index(merger.existing,
                        normalize_title(merger.existing[found].title))
       IN  merger' =
             IF found # 0
             THEN IF existing_index # 0
                  THEN [merger EXCEPT
                           !.k = @ + 1,
                           !.merged_papers[existing_index] =
                               merge_paper_data(merger.existing[found],
                                                paper_data),
                           !.updated_count = @ + 1]
                  ELSE [merger EXCEPT !.k = @ + 1]
             ELSE [merger EXCEPT
                      !.k = @ + 1,
                      !.merged_papers =
                          Append(@, convert_to_yaml_format(paper_data)),
                      !.new_count = @ + 1]
    /\ UNCHANGED << loader, stream, scraper >>

\* existing_data['papers'] = merged_papers and the yaml.dump: lines 266-280
MergeSave ==
    /\ merger.pc = "loop"
    /\ merger.k = Len(merger.processed)
    /\ merger' = [merger EXCEPT !.pc = "done",
                                !.output = merger.merged_papers]
    /\ UNCHANGED << loader, stream, scraper >>

MergeNext ==
    \/ MergePaper
    \/ MergeSave

MergeSpec == MergeInit /\ [][MergeNext]_vars

(***************************************************************************)
(* Properties.                                                             *)
(***************************************************************************)
Rows(s) == 0 .. Len(df[s]) - 1

Increasing(q) == \A n \in 1..Len(q) - 1 : q[n] < q[n + 1]

\* C1 (resume correctness): a run that loaded a checkpoint with
\* papers_offset = k and papers_complete = false attempts papers rows in
\* strictly increasing index order, the first of them row k, and none of
\* index < k.
C1_ResumeCorrectness ==
    ~loaded.papers_complete =>
        /\ \A n \in 1..Len(attempted.papers) :
               attempted.papers[n] >= loaded.papers_offset
        /\ Increasing(attempted.papers)
        /\ attempted.papers # << >> =>
               attempted.papers[1] = loaded.papers_offset

\* a resumed run that started at a checkpoint offset k > 0 and attempted
\* the rows from k to the end of the papers source
C1_Witness ==
    /\ mode = "continue"
    /\ prevExit = "interrupted"
    /\ ~loaded.papers_complete
    /\ loaded.papers_offset = batch_size
    /\ attempted.papers # << >>
    /\ attempted.papers[Len(attempted.papers)] = Len(df.papers) - 1

\* rows of stream s this run attempted although a batch holding them was
\* committed by an earlier run working on the same checkpoint
Reattempted(s) == {n \in Range(attempted[s]) : n \in prior[s]}

Tables ==
    {"papers", "datasets", "implementations", "benchmarks",
     "benchmark_results"}

\* C2 (idempotence): a run that follows a completed run, with no reset in
\* between, ends with every destination table as long as it was when the
\* run started, and each loader reports zero inserted rows.
C2_Idempotence ==
    (pc = "done" /\ mode = "continue" /\ prevExit = "completed") =>
        /\ \A t \in Tables : Len(db[t]) = Len(dbAtStart[t])
        /\ \A s \in Streams : counts[s] = 0

\* no table of the store holds the same row twice
NoDuplicateRows(t) ==
    \A name \in Tables :
        \A m, n \in 1..Len(t[name]) : t[name][m] = t[name][n] => m = n

\* C4 (no duplicates after crash and resume): as long as the checkpoint was
\* never cleared (the runs are a first run and resumptions of it), no
\* destination table holds two rows for one source row.
C4_NoDuplicates ==
    resets = 0 => NoDuplicateRows(db)

\* C5 (skip accounting): when a batch is about to be committed, inserted +
\* skipped equals the number of source rows the loader has processed, for
\* every stream and batch.
C5_SkipAccounting ==
    pc = "commit" =>
        inserted + skipped = BatchEnd(i, Len(df[stage])) - start_offset

\* C7 (offset cap): every persisted offset lies between 0 and the length of
\* its source, and while a loader runs the offset of its stream is the
\* number of source rows processed, min(i, len(df)).
C7_OffsetCap ==
    /\ \A s \in Streams :
           /\ CHECKPOINT_FILE.data[OffsetKey(s)] >= 0
           /\ CHECKPOINT_FILE.data[OffsetKey(s)] <= Len(df[s])
    /\ pc \in {"row", "commit", "save", "complete"} =>
           checkpoint[OffsetKey(stage)] = Min(i, Len(df[stage]))

\* C8 (papers scenario): the three-row papers source, loaded into an empty
\* table from a fresh checkpoint, gives 1 inserted (a1/P1), 2 skipped,
\* papers_offset = 3 and papers_complete = true when load_papers returns.
C8_PapersScenario ==
    ( /\ df.papers = ScenarioPapers
      /\ "papers" \in present
      /\ runs = 1
      /\ pc = "enter"
      /\ stage = "datasets" ) =>
        /\ inserted = 1
        /\ skipped = 2
        /\ counts.papers = 1
        /\ db.papers = << [arxiv_id |-> "a1", title |-> "P1"] >>
        /\ checkpoint.papers_complete
        /\ CHECKPOINT_FILE.data.papers_complete
        /\ checkpoint.papers_offset = 3
        /\ CHECKPOINT_FILE.data.papers_offset = 3

\* the scenario's outcome without its final offset
C8_ScenarioCounts ==
    ( /\ df.papers = ScenarioPapers
      /\ "papers" \in present
      /\ runs = 1
      /\ pc = "enter"
      /\ stage = "datasets" ) =>
        /\ inserted = 1
        /\ skipped = 2
        /\ counts.papers = 1
        /\ db.papers = << [arxiv_id |-> "a1", title |-> "P1"] >>
        /\ checkpoint.papers_complete
        /\ CHECKPOINT_FILE.data.papers_complete

AllRows(s) == [n \in 1..Len(df[s]) |-> n - 1]

\* C6 as stated (checkpoint lifecycle): after a run in which all four
\* streams reached complete = true the checkpoint file no longer exists, and
\* the next run without --fresh attempts no source row of any stream.
C6_ZeroWork ==
    /\ (pc = "idle" /\ lastExit = "completed") => ~CHECKPOINT_FILE.exists
    /\ (mode = "continue" /\ prevExit = "completed") =>
           \A s \in Streams : attempted[s] = << >>

\* C6 as amended: after a run that ended successfully with all four streams
\* complete = true the checkpoint file no longer exists, and the next run without
\* --fresh therefore loads the all-zero checkpoint and, run to its end,
\* attempts every source row of every stream again, from offset 0.
C6_CheckpointLifecycle ==
    /\ (pc = "idle" /\ lastExit = "completed") => ~CHECKPOINT_FILE.exists
    /\ (mode = "continue" /\ prevExit = "completed") =>
           /\ loaded = FreshCheckpoint
           /\ pc = "done" =>
                  \A s \in present : attempted[s] = AllRows(s)

\* a run after a completed run, at its end, having attempted all rows again
C6_Witness ==
    /\ mode = "continue"
    /\ prevExit = "completed"
    /\ pc = "done"
    /\ present = Streams
    /\ Len(attempted.papers) = Len(df.papers)
    /\ Len(attempted.eval) = Len(df.eval)

\* an implementations row refers to a paper of the table, and to the paper
\* whose arxiv_id a code-link row with the row's repo_url names
ValidImplementations(t) ==
    \A n \in 1..Len(t.implementations) :
        LET r == t.implementations[n] IN
        /\ r.paper_id \in 1..Len(t.papers)
        /\ \E k \in 1..Len(df.links) :
               /\ df.links[k].repo_url = r.github_url
               /\ ~isna(df.links[k].paper_arxiv_id)
               /\ df.links[k].paper_arxiv_id = t.papers[r.paper_id].arxiv_id

\* the code-link row about to be processed names no paper of the table
Unreferenced ==
    /\ pc = "row"
    /\ stage = "links"
    /\ \/ isna(df.links[j + 1].paper_arxiv_id)
       \/ SelectPaper(conn, df.links[j + 1].paper_arxiv_id) = 0

\* C9 (dependency ordering): a code-link row whose paper_arxiv_id is missing
\* or names no row of the papers table inserts nothing and, unless the
\* transaction has failed before it, is counted as skipped; every
\* implementations row, committed or not, has a paper_id that identifies an
\* existing paper, the one its link row names.
C9_DependencyOrdering ==
    /\ [](ValidImplementations(db) /\ ValidImplementations(conn))
    /\ [][(Unreferenced /\ pc' # "idle") =>
             /\ ~inerror => skipped' = skipped + 1
             /\ inserted' = inserted
             /\ conn'.implementations = conn.implementations]_vars

\* load_code_links returned having inserted the link to a loaded paper and
\* skipped the link to an unknown paper and the link without arxiv id
C9_Witness ==
    /\ pc = "enter"
    /\ stage = "eval"
    /\ counts.links = 1
    /\ skipped = 2
    /\ Len(conn.implementations) = 1
    /\ attempted.links = AllRows("links")

\* C10 as stated (reference order): no code-link row is attempted before
\* the papers stage has processed its whole source, no evaluation row
\* before the papers and the datasets stage have, also when an earlier
\* stage returned early.
C10_ReferenceOrder ==
    pc # "idle" =>
        /\ attempted.links # << >> => checkpoint.papers_complete
        /\ attempted.eval # << >> =>
               checkpoint.papers_complete /\ checkpoint.datasets_complete

\* C10 as amended: no code-link row is attempted before load_papers has
\* returned, no evaluation row before load_papers and load_datasets have;
\* the earlier stage has then processed its whole source (in this run or an
\* earlier one), unless it returned early because its source file is
\* missing, in which case the later rows are attempted all the same.
C10_ReferenceOrderAmended ==
    pc # "idle" =>
        /\ attempted.links # << >> =>
               /\ StageIndex(stage) > StageIndex("papers")
               /\ "papers" \in present => checkpoint.papers_complete
        /\ attempted.eval # << >> =>
               /\ StageIndex(stage) > StageIndex("datasets")
               /\ "papers" \in present => checkpoint.papers_complete
               /\ "datasets" \in present => checkpoint.datasets_complete

\* evaluation rows attempted after a papers stage that skipped a row on an
\* error and a datasets stage, both run to the end of their sources
C10_Witness ==
    /\ pc = "row"
    /\ stage = "eval"
    /\ attempted.eval # << >>
    /\ attempted.links # << >>
    /\ present = Streams
    /\ df.papers = ErrorPapers
    /\ attempted.papers = AllRows("papers")

\* the place of each stage in the sequence the specification gives
Place(s) ==
    CASE s = "papers" -> 1
      [] s = "datasets" -> 2
      [] s = "links" -> 3
      [] s = "eval" -> 4

\* every papers row of the store has an arxiv_id, and no two share one
KeyedPapers(t) ==
    /\ \A n \in 1..Len(t.papers) : ~isna(t.papers[n].arxiv_id)
    /\ \A m, n \in 1..Len(t.papers) :
           t.papers[m].arxiv_id = t.papers[n].arxiv_id => m = n

\* C11 (missing natural key): a papers source row without arxiv_id is
\* counted as skipped and writes nothing; no papers row, committed or not,
\* has a null arxiv_id, and no two papers rows share an arxiv_id.
C11_MissingNaturalKey ==
    /\ [](KeyedPapers(db) /\ KeyedPapers(conn))
    /\ [][( /\ pc = "row"
            /\ stage = "papers"
            /\ isna(df.papers[j + 1].arxiv_id)
            /\ pc' # "idle" ) =>
             /\ skipped' = skipped + 1
             /\ inserted' = inserted
             /\ conn' = conn]_vars

\* load_papers returned from the scenario source: the keyless row and the
\* row repeating a1 are skipped, one paper is stored
C11_Witness ==
    /\ df.papers = ScenarioPapers
    /\ pc = "enter"
    /\ stage = "datasets"
    /\ attempted.papers = AllRows("papers")
    /\ skipped = 2
    /\ Len(db.papers) = 1

\* C12 (completed-stage no-op): a loader entered with its stream marked
\* complete returns 0 at once: tables, connection view, checkpoint dict and
\* checkpoint file stay as they are, no row is attempted, and main goes on
\* to the next stage (or, after the last, to its end).
C12_CompletedStageNoOp ==
    [][( /\ pc = "enter"
         /\ checkpoint[CompleteKey(stage)]
         /\ pc' # "idle" ) =>
          /\ counts'[stage] = 0
          /\ db' = db
          /\ conn' = conn
          /\ checkpoint' = checkpoint
          /\ CHECKPOINT_FILE' = CHECKPOINT_FILE
          /\ attempted' = attempted
          /\ IF Place(stage) = 4
             THEN pc' = "done"
             ELSE pc' = "enter" /\ Place(stage') = Place(stage) + 1]_vars

\* a resumed run that skipped the completed papers stage and is loading
\* datasets rows
C12_Witness ==
    /\ mode = "continue"
    /\ loaded.papers_complete
    /\ ~loaded.datasets_complete
    /\ "papers" \in present
    /\ pc = "row"
    /\ stage = "datasets"
    /\ counts.papers = 0
    /\ attempted.papers = << >>
    /\ attempted.datasets # << >>

\* C13 (stage order): the stages run in the sequence papers, datasets,
\* links, eval: while a stage runs no row of a later stage has been
\* attempted, a step attempts rows of the running stage only, and main
\* moves from a stage to the next one only, never back.
C13_StageOrder ==
    /\ [](pc # "idle" =>
            \A s \in Streams :
                Place(s) > Place(stage) => attempted[s] = << >>)
    /\ [][(pc # "idle" /\ pc' # "idle") =>
             /\ Place(stage') \in {Place(stage), Place(stage) + 1}
             /\ \A s \in Streams :
                    attempted'[s] # attempted[s] =>
                        s = stage /\ stage' = stage]_vars

\* a run at its end that attempted rows of all four streams
C13_Witness ==
    /\ pc = "done"
    /\ \A s \in Streams : attempted[s] = AllRows(s)

\* C14 (monotone progress): from one persisted checkpoint to the next, as
\* long as the file is not cleared, no stream's offset decreases and no
\* complete flag goes from true to false.
C14_MonotoneProgress ==
    [][( /\ CHECKPOINT_FILE.exists /\ ~CHECKPOINT_FILE.truncated
         /\ CHECKPOINT_FILE'.exists /\ ~CHECKPOINT_FILE'.truncated ) =>
          \A s \in Streams :
              /\ CHECKPOINT_FILE'.data[OffsetKey(s)] >=
                     CHECKPOINT_FILE.data[OffsetKey(s)]
              /\ CHECKPOINT_FILE.data[CompleteKey(s)] =>
                     CHECKPOINT_FILE'.data[CompleteKey(s)]]_vars

\* a resumed run, after an interruption past the papers stage, saving the
\* offset of a links batch on top of the earlier run's checkpoint
C14_Witness ==
    /\ prevExit = "interrupted"
    /\ mode = "continue"
    /\ loaded.papers_complete
    /\ CHECKPOINT_FILE.exists
    /\ CHECKPOINT_FILE.data.papers_complete
    /\ CHECKPOINT_FILE.data.links_offset > loaded.links_offset

\* C15 (batch-level error): an error that escapes a loader during a batch
\* (in the row loop or at conn.commit()) ends the run with the checkpoint
\* file and the committed tables as they were, the failing batch's offset
\* not persisted; after such an end every row below a persisted offset
\* belongs to a batch that the store committed.
C15_BatchLevelError ==
    /\ []((pc = "idle" /\ lastExit = "interrupted"
             /\ CHECKPOINT_FILE.exists /\ ~CHECKPOINT_FILE.truncated) =>
            \A s \in Streams : \A n \in Rows(s) :
                n < CHECKPOINT_FILE.data[OffsetKey(s)] => n \in durable[s])
    /\ [][(pc \in {"row", "commit"} /\ pc' = "idle") =>
             /\ CHECKPOINT_FILE' = CHECKPOINT_FILE
             /\ db' = db
             /\ CHECKPOINT_FILE.data[OffsetKey(stage)] <= i]_vars

\* C16 (row-level error isolation): a row that raises is the only row its
\* error costs: every row of a batch gets the outcome its loader gives it
\* on the tables the batch has built so far, conn.commit() makes the
\* batch's rows the committed tables, and the offset is then advanced and
\* saved.
C16_RowErrorIsolation ==
    [][ /\ (pc = "row" /\ pc' # "idle") =>
              LET out == LoadRow(stage, conn, df[stage][j + 1]) IN
              /\ conn' = out.t
              /\ inserted' = inserted + out.inserted
              /\ skipped' = skipped + out.skipped
        /\ (pc = "commit" /\ pc' # "idle") => db' = conn
        /\ (pc = "save" /\ pc' # "idle") =>
              /\ checkpoint'[OffsetKey(stage)] > checkpoint[OffsetKey(stage)]
              /\ CHECKPOINT_FILE'.data = checkpoint' ]_vars

\* C17 (atomic save): whatever interrupts a run, the checkpoint file holds
\* a complete checkpoint, and no run fails to load it.
C17_AtomicSave ==
    /\ ~CHECKPOINT_FILE.truncated
    /\ lastExit # "failed"

\* C18 (exit status): a run ended by KeyboardInterrupt or by an exception
\* that reached main's handlers exits with a status other than 0; status 0
\* is the success path's alone.
C18_ExitStatus ==
    /\ lastExit = "interrupted" => Status(lastExit) # 0
    /\ (lastExit # "none" /\ Status(lastExit) = 0) =>
           lastExit \in {"completed", "finished", "cleared"}

\* C19 (fresh run): a --fresh run loads the all-zero checkpoint whatever
\* the file held, every stage it enters starts at row 0, and run to its
\* end it has attempted every source row of every stream.
C19_FreshRun ==
    mode = "fresh" =>
        /\ loaded = FreshCheckpoint
        /\ \A s \in Streams :
               attempted[s] # << >> => attempted[s][1] = 0
        /\ pc = "done" => \A s \in present : attempted[s] = AllRows(s)

\* a --fresh run at its end, started over a checkpoint and tables that an
\* interrupted run had left behind
C19_Witness ==
    /\ mode = "fresh"
    /\ prevExit = "interrupted"
    /\ Len(dbAtStart.datasets) > 0
    /\ pc = "done"
    /\ present = Streams
    /\ attempted.papers = AllRows("papers")

\* C20 (checkpoint-only reset): a --clear-checkpoint invocation leaves no
\* checkpoint file and ends at once: no stage is entered, no row attempted,
\* and every destination table is unchanged.
C20_ClearCheckpointOnly ==
    [][(mode' = "clear_checkpoint" /\ runs' = runs + 1) =>
          /\ ~CHECKPOINT_FILE'.exists
          /\ pc' = "idle"
          /\ db' = db
          /\ conn' = db
          /\ attempted' = attempted
          /\ lastExit' = "cleared"]_vars

\* a --clear-checkpoint invocation that deleted the checkpoint of an
\* interrupted run and left its committed papers in place
C20_Witness ==
    /\ mode = "clear_checkpoint"
    /\ pc = "idle"
    /\ lastExit = "cleared"
    /\ prevExit = "interrupted"
    /\ resets = 1
    /\ ~CHECKPOINT_FILE.exists
    /\ Len(db.papers) > 0

\* C21 (load): a run without --fresh gets from load_checkpoint() the
\* all-zero checkpoint when there is no file and otherwise the dict last
\* passed to save_checkpoint(), and never fails in it: a completed save
\* leaves a file that loads as the dict saved, and nothing but a save or a
\* clear changes the file.
C21_LoadCheckpoint ==
    [][ /\ (pc \in {"save", "complete"} /\ pc' # "idle") =>
              load_checkpoint(CHECKPOINT_FILE') = checkpoint'
        /\ (pc = "idle" /\ mode' = "continue" /\ runs' = runs + 1) =>
              /\ pc' = "enter"
              /\ loaded' = IF CHECKPOINT_FILE.exists
                           THEN CHECKPOINT_FILE.data ELSE FreshCheckpoint
        /\ CHECKPOINT_FILE' # CHECKPOINT_FILE =>
              \/ pc \in {"save", "complete"} /\ pc' # "idle"
              \/ ~CHECKPOINT_FILE'.exists ]_vars

\* C22 (clear is idempotent): on every checkpoint file the program can
\* leave behind, clear_checkpoint() leaves no file, changes nothing when
\* there was none, and a second call leaves what the first left.
C22_ClearIdempotent ==
    /\ ~clear_checkpoint(CHECKPOINT_FILE).exists
    /\ ~CHECKPOINT_FILE.exists =>
           clear_checkpoint(CHECKPOINT_FILE) = CHECKPOINT_FILE
    /\ clear_checkpoint(clear_checkpoint(CHECKPOINT_FILE)) =
           clear_checkpoint(CHECKPOINT_FILE)

\* a --fresh run right after a --clear-checkpoint that removed a file:
\* clear_checkpoint() was called twice in a row, the second time on no file
C22_Witness ==
    /\ mode = "fresh"
    /\ prevExit = "cleared"
    /\ resets >= 2
    /\ pc = "enter"
    /\ ~CHECKPOINT_FILE.exists

\* no two benchmark_results rows for one (paper, benchmark, metric name)
UniqueResults(t) ==
    \A m, n \in 1..Len(t.benchmark_results) :
        ( /\ t.benchmark_results[m].paper_id = t.benchmark_results[n].paper_id
          /\ t.benchmark_results[m].benchmark_id =
                 t.benchmark_results[n].benchmark_id
          /\ t.benchmark_results[m].metric_name =
                 t.benchmark_results[n].metric_name ) => m = n

\* every benchmark_results row names a paper and a benchmark of the store
\* and carries a number
SoundResults(t) ==
    \A n \in 1..Len(t.benchmark_results) :
        /\ t.benchmark_results[n].paper_id \in 1..Len(t.papers)
        /\ t.benchmark_results[n].benchmark_id \in 1..Len(t.benchmarks)
        /\ t.benchmark_results[n].metric_value >= 0

\* C23 (result immutability): a committed benchmark_results row is never
\* changed or removed by a later step of any run; no two rows, committed
\* or not, share (paper, benchmark, metric name); every row names an
\* existing paper and carries a numeric value.
C23_ResultImmutability ==
    /\ [](/\ UniqueResults(db) /\ UniqueResults(conn)
          /\ SoundResults(db) /\ SoundResults(conn))
    /\ [][\A n \in 1..Len(db.benchmark_results) :
              /\ n <= Len(db'.benchmark_results)
              /\ db'.benchmark_results[n] = db.benchmark_results[n]]_vars

\* a second run over evaluation rows a completed run had loaded: the
\* result 1.5 of the first row is still the only one, though the fifth row
\* carries 2 for the same triple and every row was attempted again
C23_Witness ==
    /\ mode = "continue"
    /\ prevExit = "completed"
    /\ pc = "done"
    /\ attempted.eval = AllRows("eval")
    /\ Len(dbAtStart.benchmark_results) = 1
    /\ Len(db.benchmark_results) = 1
    /\ db.benchmark_results[1].metric_value = 15

\* C24 (benchmark uniqueness): the committed benchmarks table holds at
\* most one row per (name, dataset reference) pair, the pairs without a
\* dataset included.
C24_BenchmarkUniqueness ==
    \A m, n \in 1..Len(db.benchmarks) :
        ( /\ db.benchmarks[m].name = db.benchmarks[n].name
          /\ db.benchmarks[m].dataset_id = db.benchmarks[n].dataset_id )
            => m = n

\* C28 (clear only on full completion): a run that reaches its end deletes
\* the checkpoint file only if all four complete flags are true in its
\* checkpoint; otherwise the file stays.
C28_ClearOnlyWhenComplete ==
    [][(pc = "done" /\ pc' = "idle"
          /\ lastExit' \in {"completed", "finished"}) =>
          \/ \A s \in Streams : checkpoint[CompleteKey(s)]
          \/ CHECKPOINT_FILE' = CHECKPOINT_FILE]_vars

\* C25 (streaming upsert contract): when stream_evaluation_tables
\* returns, every dataset row that was there before the stream is as it
\* was, and the inserted count it reports is the number of benchmarks rows
\* the stream created.
C25_StreamingUpsert ==
    stream.pc = "done" =>
        /\ \A n \in 1..Len(stream.before.datasets) :
               stream.db.datasets[n] = stream.before.datasets[n]
        /\ stream.inserted =
               Len(stream.db.benchmarks) - Len(stream.before.benchmarks)

\* C26 (streaming error isolation): a row that raises adds exactly one to
\* errors and a row that is not in error adds none and is processed; every
\* CommitEvery-th row is followed by a commit, the end of the stream by
\* one more; the checkpoint file is not touched.
C26_StreamingErrorIsolation ==
    [][ /\ (stream.pc = "loop" /\ stream'.i = stream.i + 1) =>
              LET row == stream.ds[stream.i + 1] IN
              /\ stream'.errors =
                     stream.errors + (IF row.bad = "no" THEN 0 ELSE 1)
              /\ (stream.i + 1) % CommitEvery = 0 =>
                     stream'.commits = stream.commits + 1
        /\ (stream.pc = "loop" /\ stream'.pc = "done") =>
              /\ stream.i = Len(stream.ds)
              /\ stream'.commits = stream.commits + 1
        /\ CHECKPOINT_FILE' = CHECKPOINT_FILE ]_vars

\* C27 (scraper fresh start): in a run with continue_from_last = FALSE,
\* the pass over a task whose URL an earlier run recorded in scraped_urls
\* fetches the task page and goes on to the task's papers.
C27_ScraperFreshStart ==
    [][( /\ scraper.pc = "task"
         /\ ~scraper.continue_from_last
         /\ scraper'.pc = "paper"
         /\ tasks_to_scrape[scraper.task + 1] \in scraper.urls_file ) =>
          LET url == tasks_to_scrape[scraper.task + 1] IN
          /\ scraper'.fetches[url] = scraper.fetches[url] + 1
          /\ scraper'.papers_in_task # << >> ]_vars

\* the first max_papers papers of a task page
Selected(task_url) ==
    {PapersOf(task_url)[n] :
        n \in 1..Min(max_papers, Len(PapersOf(task_url)))}

\* C29 (scraper resume completeness), for the runs in which the archive
\* answered every fetch: no page recorded in scraped_urls is fetched
\* twice, and when a run with continue_from_last = TRUE that follows an
\* interrupted one completes, every selected paper of every selected task
\* has been scraped.
C29_ScraperResume ==
    ~scraper.failed =>
        /\ \A u \in PageUrls : scraper.fetches[u] <= 1
        /\ ( /\ scraper.pc = "idle"
             /\ scraper.last = "completed"
             /\ scraper.continue_from_last
             /\ scraper.interrupted ) =>
               \A n \in 1..Len(tasks_to_scrape) :
                   Selected(tasks_to_scrape[n]) \subseteq scraper.files

\* no two papers of the list with the same non-empty normalized title
DistinctTitles(papers) ==
    \A m, n \in 1..Len(papers) :
        ( /\ normalize_title(papers[m].title) # << >>
          /\ normalize_title(papers[m].title) =
                 normalize_title(papers[n].title) ) => m = n

\* C30 (merge deduplication): in the file DataMerger.run writes, every
\* existing paper is at its original index, and if no two existing papers
\* had the same normalized title then no two merged papers have the same
\* non-empty normalized title.
C30_MergeDeduplication ==
    merger.pc = "done" =>
        /\ Len(merger.output) >= Len(merger.existing)
        /\ \A n \in 1..Len(merger.existing) :
               merger.output[n].title = merger.existing[n].title
        /\ DistinctTitles(merger.existing) => DistinctTitles(merger.output)

=============================================================================
